---------------------------- MODULE Spec2Model ----------------------------
(* A model of tui.h (hfridholm/tui): the ownership tree of windows, menus  *)
(* and the tui struct with its teardown functions, the color-pair matrix   *)
(* with tui_init / tui_color_on / tui_color_off, and tui_event.            *)
(* ncurses is the backend: its calls are recorded in logs, and what it     *)
(* answers (OK / ERR) is fixed by the terminal and the surfaces chosen in  *)
(* the initial state, over all choices.                                    *)
EXTENDS Integers, Sequences, FiniteSets, TLC

\* ------------------------------------------------------------------ bounds
MaxNodes == 3
MaxDepth == 2
MaxArgColor == 2

\* --------------------------------------------------------------- constants
NULL == 0

Nodes == 1..MaxNodes
MenuIds == {1, 2}

\* The keys of tui.h
KEY_CTRLC == 3
KEY_CTRLZ == 26
KEY_ESC == 27
KEY_ENTR == 10
KEY_TAB == 9

\* tui_color_t: TUI_COLOR_NONE is 0, TUI_COLOR_WHITE is 8.
NumColors == 9
TUI_COLOR_NONE == 0
TUI_COLOR_WHITE == 8
Colors == 0..(NumColors - 1)

\* TUI_COLORS[]: the ncurses color of each tui color (COLOR_BLACK is 0,
\* COLOR_WHITE is 7), -1 (the terminal's default color) for TUI_COLOR_NONE.
TUI_COLORS == <<-1, 0, 1, 2, 3, 4, 5, 6, 7>>

\* tui_window_type_t
WindowTypes == {"TUI_WINDOW_PARENT", "TUI_WINDOW_TEXT", "TUI_WINDOW_INPUT"}

VARIABLES
  windows,       \* the tui_window_t structs: type, window (WINDOW*), children, live
  menus,         \* the tui_menu_t structs: windows, live
  tui,           \* the tui_t struct: menus, windows, tab_windows, menu, window, color, live
  tui_ptr,       \* the caller's tui_t* variable handed to tui_delete by address
  delwin_calls,  \* the delwin calls the backend received, in order, with their results
  free_calls,    \* the free calls on non-null pointers, in order
  built,         \* the structs as the caller built them, kept for reference
  last_call,     \* the name of the library function called last
  term,          \* what the terminal can do: start_color, has_colors, rejected pairs
  backend,       \* ncurses: screen mode, color mode, the registered color pairs
  init,          \* tui_init: its position, the loop indexes of tui_colors_init, its result
  init_pair_calls, \* the init_pair calls the backend received, in order, with results
  color_op,      \* the last tui_color_on / tui_color_off call: arguments and pair index
  regions,       \* the color regions entered by tui_color_on and not yet left
  handlers,      \* the event fields of the tui, the menus and the windows: set or NULL
  handler_calls, \* the handler invocations, in order
  event,         \* the last tui_event call: its key, tui->window and the calls before it
  last_ref,      \* what the last teardown call was handed: "null" (a null reference),
                 \* "to_null" (a reference to NULL) or "object"; "none" before any call
  input,         \* the fields of a tui_window_input_t and what was done to it
  layout         \* a parent window's main extent, its children and their placement

treeVars == <<windows, menus, tui, tui_ptr, delwin_calls, free_calls, built, last_ref>>

colorVars == <<term, backend, init, init_pair_calls, color_op, regions>>

eventVars == <<handlers, handler_calls, event>>

widgetVars == <<input, layout>>

vars == <<windows, menus, tui, tui_ptr, delwin_calls, free_calls, built, last_call,
          term, backend, init, init_pair_calls, color_op, regions,
          handlers, handler_calls, event, last_ref, input, layout>>

\* ------------------------------------------------------- arrays and slots
\* A tui_window_t** array is addressed by the struct that holds it.
TuiArr == [kind |-> "tui", id |-> 0]
MenuArr(m) == [kind |-> "menu", id |-> m]
WindowArr(p) == [kind |-> "window", id |-> p]

\* The memory the teardown functions work on, as one record.
Mem == [windows |-> windows, menus |-> menus, tui |-> tui, ptr |-> tui_ptr,
        delwin_calls |-> delwin_calls, free_calls |-> free_calls]

ReadArr(st, arr) ==
  CASE arr.kind = "tui" -> st.tui.windows
    [] arr.kind = "menu" -> st.menus[arr.id].windows
    [] arr.kind = "window" -> st.windows[arr.id].children

WriteArr(st, arr, seq) ==
  CASE arr.kind = "tui" -> [st EXCEPT !.tui.windows = seq]
    [] arr.kind = "menu" -> [st EXCEPT !.menus[arr.id].windows = seq]
    [] arr.kind = "window" -> [st EXCEPT !.windows[arr.id].children = seq]

\* A tui_window_t** slot: element index of an array.
Slot(arr, index) == [arr |-> arr, index |-> index]

\* The null tui_window_t**: no slot at all.
NullSlot == [arr |-> [kind |-> "null", id |-> 0], index |-> 0]
ReadSlot(st, slot) == ReadArr(st, slot.arr)[slot.index]
WriteSlot(st, slot, v) ==
  WriteArr(st, slot.arr, [ReadArr(st, slot.arr) EXCEPT ![slot.index] = v])

\* free(p): every call on a non-null pointer is logged.
Free(st, what) == [st EXCEPT !.free_calls = Append(@, what)]

\* tui_create leaves every field but w, h and event zero.
TuiCreated ==
  [menus |-> <<>>, windows |-> <<>>, tab_windows |-> <<>>,
   menu |-> NULL, window |-> NULL, color |-> 0, is_running |-> FALSE,
   live |-> TRUE]

\* ----------------------------------------------------- the color matrix
\* A wrong variant of PairIndex: the row length is one short.
PairIndexShortRow(fg, bg) == fg * (NumColors - 1) + bg

\* index = fg * 9 + bg
PairIndex(fg, bg) == fg * NumColors + bg

PairIndexes == 0..(NumColors * NumColors - 1)

\* Before initscr: no screen, no color mode, no pair registered. pairs lists
\* the content of the pairs 0..80 at the positions 1..81, <<>> for a pair
\* that is not registered.
BackendOff == [screen |-> "off", colors |-> FALSE,
               pairs |-> [i \in 1..(NumColors * NumColors) |-> <<>>]]

InitIdle == [pc |-> "idle", fg_index |-> 0, bg_index |-> 0, result |-> -1]

\* key: the key passed; window: tui->window at the call; calls: the number
\* of handler invocations made before the call.
NoEvent == [key |-> 0, window |-> NULL, calls |-> 0]

\* No struct, no handler.
NoHandlers == [tui |-> FALSE, menus |-> <<>>, windows |-> <<>>]

\* op: "on" or "off"; fg, bg: the arguments; before: tui->color at the call;
\* index: the pair handed to attron / attroff; prior: a tui_color_on call
\* was made earlier; matched: the pair handed to attron by the tui_color_on
\* call that entered the region (0 when regions are not followed).
NoColorOp == [op |-> "none", fg |-> 0, bg |-> 0, before |-> 0, index |-> 0,
              prior |-> FALSE, matched |-> 0]

\* No input window: the fields of tui_window_input_t zeroed, rect.w zero; op
\* is the last operation, inserts and deletes count the operations of a run
\* of insertions followed by deletions, paired tells that the operations so
\* far form such a run.
NoInput == [buffer |-> <<>>, buffer_size |-> 0, buffer_len |-> 0, cursor |-> 0,
            scroll |-> 0, w |-> 0,
            inserts |-> 0, deletes |-> 0, paired |-> FALSE, op |-> "none"]

\* No parent window laid out.

\* extent: the main-axis extent of the parent; sizes: the requested main
\* extents of the children, 0 for an auto-sized one; extents and gaps: what
\* the layout gave, gaps from the leading edge to the trailing edge.
NoLayout == [extent |-> 0, sizes |-> <<>>, pos |-> "none", align |-> "none",
             extents |-> <<>>, gaps |-> <<>>, done |-> FALSE]

\* init_pair(index, f, b): ERR when the terminal rejects the pair, else the
\* pair is registered.
init_pair(b, index, f, bg, reject) ==
  IF index \in reject
  THEN [result |-> "ERR", backend |-> b]
  ELSE [result |-> "OK", backend |-> [b EXCEPT !.pairs[index + 1] = <<f, bg>>]]

\* pair_content(pair, &f, &b): OK with the registered colors, ERR when color
\* mode is off or the pair was never registered.
pair_content(b, pair) ==
  IF b.colors /\ pair \in PairIndexes /\ b.pairs[pair + 1] # <<>>
  THEN [result |-> "OK", fg |-> b.pairs[pair + 1][1], bg |-> b.pairs[pair + 1][2]]
  ELSE [result |-> "ERR", fg |-> 0, bg |-> 0]

\* A wrong variant of Substitute: the ncurses color of the last pair is
\* taken as it is, without the offset of one.
SubstituteNoOffset(b, color, fg, bg) ==
  LET last == pair_content(b, color) IN
  IF last.result = "OK"
  THEN <<IF fg = TUI_COLOR_NONE THEN last.fg ELSE fg,
         IF bg = TUI_COLOR_NONE THEN last.bg ELSE bg>>
  ELSE <<fg, bg>>

\* The NONE substitution shared by tui_color_on and tui_color_off: when
\* pair_content succeeds on tui->color, a NONE component takes the last
\* pair's ncurses color plus one. The result is <<fg, bg>>.
Substitute(b, color, fg, bg) ==
  LET last == pair_content(b, color) IN
  IF last.result = "OK"
  THEN <<IF fg = TUI_COLOR_NONE THEN last.fg + 1 ELSE fg,
         IF bg = TUI_COLOR_NONE THEN last.bg + 1 ELSE bg>>
  ELSE <<fg, bg>>

\* tui_color_on: the pair index stored in tui->color and handed to attron.
tui_color_on(b, color, fg, bg) ==
  LET c == Substitute(b, color, fg, bg) IN PairIndex(c[1], c[2])

\* tui_color_off: the pair index handed to attroff; tui->color is not
\* written.
tui_color_off(b, color, fg, bg) ==
  LET c == Substitute(b, color, fg, bg) IN PairIndex(c[1], c[2])

\* ------------------------------------------------------------ tui_init
\* A wrong variant of ColorsUnavailable: has_colors is not asked.
ColorsUnavailableStartOnly(t) == t.start_color = "ERR"

\* start_color() == ERR || !has_colors()
ColorsUnavailable(t) == t.start_color = "ERR" \/ ~t.has_colors

\* initscr, noecho, raw, keypad, then start_color() == ERR || !has_colors():
\* endwin and return 1.
TuiInitNoColors ==
  /\ init.pc = "idle"
  /\ ColorsUnavailable(term)
  /\ backend' = [backend EXCEPT !.screen = "ended",
                                !.colors = (term.start_color = "OK")]
  /\ init' = [init EXCEPT !.pc = "returned", !.result = 1]
  /\ last_call' = "tui_init"
  /\ UNCHANGED <<treeVars, term, init_pair_calls, color_op, regions, eventVars, widgetVars>>

\* initscr, noecho, raw, keypad, start_color and has_colors succeed,
\* use_default_colors, and tui_colors_init is entered.
TuiInitColors ==
  /\ init.pc = "idle"
  /\ ~ColorsUnavailable(term)
  /\ backend' = [backend EXCEPT !.screen = "curses", !.colors = TRUE]
  /\ init' = [init EXCEPT !.pc = "tui_colors_init", !.fg_index = 0, !.bg_index = 0]
  /\ last_call' = "tui_init"
  /\ UNCHANGED <<treeVars, term, init_pair_calls, color_op, regions, eventVars, widgetVars>>

\* One turn of the inner loop of tui_colors_init: init_pair on the index of
\* (fg_index, bg_index); its result is not read.
ColorsInitStep ==
  /\ init.pc = "tui_colors_init"
  /\ init.fg_index < NumColors
  /\ LET index == PairIndex(init.fg_index, init.bg_index)
         fg_color == TUI_COLORS[init.fg_index + 1]
         bg_color == TUI_COLORS[init.bg_index + 1]
         r == init_pair(backend, index, fg_color, bg_color, term.reject)
     IN  /\ backend' = r.backend
         /\ init_pair_calls' = Append(init_pair_calls,
              [index |-> index, fg |-> fg_color, bg |-> bg_color, result |-> r.result])
  /\ init' = IF init.bg_index + 1 < NumColors
             THEN [init EXCEPT !.bg_index = @ + 1]
             ELSE [init EXCEPT !.fg_index = @ + 1, !.bg_index = 0]
  /\ UNCHANGED <<treeVars, last_call, term, color_op, regions, eventVars, widgetVars>>

\* tui_colors_init returned: clear, refresh, return 0.
TuiInitReturn ==
  /\ init.pc = "tui_colors_init"
  /\ init.fg_index = NumColors
  /\ init' = [init EXCEPT !.pc = "returned", !.result = 0]
  /\ UNCHANGED <<treeVars, last_call, term, backend, init_pair_calls, color_op, regions,
                 eventVars, widgetVars>>

\* The terminals tui_init is run on: start_color fails, or the terminal has
\* no colors, or color mode starts and the terminal rejects no pair, one
\* pair, or every pair from some index on (a terminal with fewer than 81
\* pairs).
RejectSets ==
  {{}} \cup {{i} : i \in PairIndexes} \cup {{j \in PairIndexes : j >= i} : i \in PairIndexes}

InitTerminals ==
  {[start_color |-> "ERR", has_colors |-> h, reject |-> {}] : h \in BOOLEAN}
    \cup {[start_color |-> "OK", has_colors |-> FALSE, reject |-> {}]}
    \cup {[start_color |-> "OK", has_colors |-> TRUE, reject |-> r] : r \in RejectSets}

NoTree ==
  /\ windows = <<>>
  /\ menus = <<>>
  /\ tui = [TuiCreated EXCEPT !.live = FALSE]
  /\ tui_ptr = NULL
  /\ delwin_calls = <<>>
  /\ free_calls = <<>>
  /\ built = [parent |-> <<>>, type |-> <<>>, surface |-> {}, delwin_err |-> {},
              tab_windows |-> <<>>]
  /\ last_ref = "none"

InitInit ==
  /\ NoTree
  /\ input = NoInput
  /\ layout = NoLayout
  /\ last_call = "none"
  /\ term \in InitTerminals
  /\ backend = BackendOff
  /\ init = InitIdle
  /\ init_pair_calls = <<>>
  /\ color_op = NoColorOp
  /\ regions = <<>>
  /\ handlers = NoHandlers
  /\ handler_calls = <<>>
  /\ event = NoEvent

NextInit == TuiInitNoColors \/ TuiInitColors \/ ColorsInitStep \/ TuiInitReturn

SpecInit == InitInit /\ [][NextInit]_vars


\* ------------------------------------------------- tui_init: the claims
\* The pair of tui colors that index i stands for.
PairOf(i) == <<i \div NumColors, i % NumColors>>

\* C5: fg * 9 + bg maps the 9 x 9 pairs of tui colors one-to-one onto
\* 0..80, and tui_colors_init asks init_pair for the indexes 0, 1, 2, ... in
\* this order, each once, with the ncurses colors of the pair the index
\* stands for; a registered index holds exactly these colors.
C5_IndexBijectionRegistered ==
  /\ \A fg \in Colors, bg \in Colors :
       /\ PairIndex(fg, bg) \in PairIndexes
       /\ PairOf(PairIndex(fg, bg)) = <<fg, bg>>
  /\ \A k \in 1..Len(init_pair_calls) :
       /\ init_pair_calls[k].index = k - 1
       /\ init_pair_calls[k].index = PairIndex(PairOf(k - 1)[1], PairOf(k - 1)[2])
       /\ init_pair_calls[k].fg = TUI_COLORS[PairOf(k - 1)[1] + 1]
       /\ init_pair_calls[k].bg = TUI_COLORS[PairOf(k - 1)[2] + 1]
  /\ Len(init_pair_calls) <= NumColors * NumColors
  /\ init.result = 0 => Len(init_pair_calls) = NumColors * NumColors
  /\ \A i \in PairIndexes :
       backend.pairs[i + 1] # <<>> =>
         backend.pairs[i + 1] = <<TUI_COLORS[PairOf(i)[1] + 1], TUI_COLORS[PairOf(i)[2] + 1]>>

\* tui_colors_init went through all 81 pairs and the backend holds them.
C5_Witness ==
  /\ init.result = 0
  /\ Len(init_pair_calls) = NumColors * NumColors
  /\ \A i \in PairIndexes : backend.pairs[i + 1] # <<>>

\* C6: when start_color fails or the terminal has no colors, tui_init
\* returns 1, has called init_pair for no pair and has ended the screen
\* with endwin; it returns 0 only after init_pair was called for all 81
\* pairs on a terminal whose color mode started.
C6_InitFailureShutsDown ==
  /\ (init.pc = "returned" /\ (term.start_color = "ERR" \/ ~term.has_colors)) =>
       /\ init.result = 1
       /\ init_pair_calls = <<>>
       /\ \A i \in PairIndexes : backend.pairs[i + 1] = <<>>
       /\ backend.screen = "ended"
  /\ init.result = 1 => backend.screen = "ended" /\ init_pair_calls = <<>>
  /\ init.result = 0 =>
       /\ term.start_color = "OK" /\ term.has_colors
       /\ Len(init_pair_calls) = NumColors * NumColors
       /\ backend.screen = "curses"

\* tui_init returned 1 on a terminal whose color mode starts but which has
\* no colors.
C6_Witness ==
  /\ init.pc = "returned"
  /\ init.result = 1
  /\ term.start_color = "OK"
  /\ ~term.has_colors

\* C7: when the backend rejected the registration of a pair, tui_init does
\* not return 0.
C7_RejectionIsFatal ==
  (init.pc = "returned" /\ \E k \in 1..Len(init_pair_calls) :
                             init_pair_calls[k].result = "ERR")
    => init.result # 0


\* ------------------------------------------- tui_color_on, tui_color_off
\* tui = tui_create(event) after a successful tui_init, with a handler (a
\* failed malloc returns NULL and changes nothing).
TuiCreate ==
  /\ init.result = 0
  /\ tui_ptr = NULL
  /\ tui' = TuiCreated
  /\ tui_ptr' = 1
  /\ handlers' = [handlers EXCEPT !.tui = TRUE]
  /\ last_call' = "tui_create"
  /\ UNCHANGED <<windows, menus, delwin_calls, free_calls, built, last_ref, colorVars,
                 handler_calls, event, widgetVars>>

\* The colors passed as arguments: NONE, the first named colors and WHITE.
ArgColors == {c \in Colors : c <= MaxArgColor} \cup {TUI_COLOR_WHITE}

\* tui_color_on(tui, fg, bg): a color region is entered.
TuiColorOn ==
  \E fg \in ArgColors, bg \in ArgColors :
    LET color == tui_color_on(backend, tui.color, fg, bg) IN
    /\ tui_ptr # NULL
    /\ Len(regions) < MaxDepth
    /\ tui' = [tui EXCEPT !.color = color]
    /\ color_op' = [op |-> "on", fg |-> fg, bg |-> bg, before |-> tui.color,
                    index |-> color, prior |-> color_op.op # "none",
                    matched |-> color]
    /\ regions' = Append(regions, [fg |-> fg, bg |-> bg, index |-> color])
    /\ last_call' = "tui_color_on"
    /\ UNCHANGED <<windows, menus, tui_ptr, delwin_calls, free_calls, built, last_ref,
                   term, backend, init, init_pair_calls, eventVars, widgetVars>>

\* tui_color_off(tui, fg, bg) with the arguments of the tui_color_on call
\* that entered the innermost region: the region is left.
TuiColorOff ==
  /\ tui_ptr # NULL
  /\ regions # <<>>
  /\ LET top == regions[Len(regions)] IN
       color_op' = [op |-> "off", fg |-> top.fg, bg |-> top.bg, before |-> tui.color,
                    index |-> tui_color_off(backend, tui.color, top.fg, top.bg),
                    prior |-> TRUE, matched |-> top.index]
  /\ regions' = SubSeq(regions, 1, Len(regions) - 1)
  /\ last_call' = "tui_color_off"
  /\ UNCHANGED <<treeVars, term, backend, init, init_pair_calls, eventVars, widgetVars>>

\* The backend as tui_init leaves it when it returns 0 on a terminal that
\* rejects the pairs in reject: color mode on, every other pair registered
\* with the colors of TUI_COLORS.
InitializedBackend(reject) ==
  [screen |-> "curses", colors |-> TRUE,
   pairs |-> [i \in 1..(NumColors * NumColors) |->
                IF (i - 1) \in reject THEN <<>>
                ELSE <<TUI_COLORS[((i - 1) \div NumColors) + 1],
                       TUI_COLORS[((i - 1) % NumColors) + 1]>>]]

\* The terminals the color calls are run on: every pair is accepted, or the
\* terminal has 64 pairs only (an 8-color terminal) and init_pair and
\* pair_content fail from pair 64 on.
ColorTerminals ==
  {[start_color |-> "OK", has_colors |-> TRUE, reject |-> r] :
     r \in {{}, {j \in PairIndexes : j >= 64}}}

\* The color calls start where tui_init returned 0 (SpecInit reaches these
\* states, see TuiInitLeaves); the record of its init_pair calls is dropped.
InitColor ==
  /\ NoTree
  /\ input = NoInput
  /\ layout = NoLayout
  /\ last_call = "tui_init"
  /\ term \in ColorTerminals
  /\ backend = InitializedBackend(term.reject)
  /\ init = [pc |-> "returned", fg_index |-> NumColors, bg_index |-> 0, result |-> 0]
  /\ init_pair_calls = <<>>
  /\ color_op = NoColorOp
  /\ regions = <<>>
  /\ handlers = NoHandlers
  /\ handler_calls = <<>>
  /\ event = NoEvent

NextColor == TuiCreate \/ TuiColorOn \/ TuiColorOff

SpecColor == InitColor /\ [][NextColor]_vars

\* ------------------------------------------------ the color claims
\* Under SpecInit: a tui_init that returned 0 leaves the backend and its own
\* record as InitColor takes them.
TuiInitLeaves ==
  init.result = 0 =>
    /\ backend = InitializedBackend(term.reject)
    /\ init = [pc |-> "returned", fg_index |-> NumColors, bg_index |-> 0, result |-> 0]
    /\ last_call = "tui_init"

\* C3: tui_color_on replaces a NONE foreground by the foreground of the
\* pair activated before, a NONE background by its background, each on its
\* own, and the resulting pair is tracked in tui->color and handed to
\* attron.
C3_TransparencyInherits ==
  (color_op.op = "on" /\ color_op.prior) =>
    LET fg0 == PairOf(color_op.before)[1]
        bg0 == PairOf(color_op.before)[2]
        fg == IF color_op.fg = TUI_COLOR_NONE THEN fg0 ELSE color_op.fg
        bg == IF color_op.bg = TUI_COLOR_NONE THEN bg0 ELSE color_op.bg
    IN  /\ tui.color = PairIndex(fg, bg)
        /\ color_op.index = tui.color

\* C4: when tui_color_off leaves a region nested in another one, tui->color
\* is again the pair that the tui_color_on of the enclosing region made
\* active.
C4_OffRestoresParent ==
  (color_op.op = "off" /\ regions # <<>>) =>
    tui.color = regions[Len(regions)].index


\* ------------------------------------------------------------- teardown
\* tui_ncurses_window_free(&windows[n].window), or tui_ncurses_window_free(NULL)
\* for n = NULL: a null reference and a null handle are left alone;
\* otherwise the surface is cleared, refreshed and deleted, the results of
\* the backend are not read, and the handle is set to NULL. errs is the set
\* of surfaces for which the backend reports ERR.
tui_ncurses_window_free(st, n, errs) ==
  IF n = NULL \/ st.windows[n].window = NULL
  THEN st
  ELSE [st EXCEPT
          !.delwin_calls = Append(@, [surface |-> st.windows[n].window,
                                      result |-> IF st.windows[n].window \in errs
                                                 THEN "ERR" ELSE "OK"]),
          !.windows[n].window = NULL]

\* free(*window); *window = NULL; the tail of the three variant destructors.
FreeWindowStruct(st, slot) ==
  LET n == ReadSlot(st, slot)
      s1 == Free(st, [kind |-> "window", id |-> n])
      s2 == [s1 EXCEPT !.windows[n].live = FALSE]
  IN  WriteSlot(s2, slot, NULL)

RECURSIVE tui_windows_free(_, _, _)

\* A wrong variant of tui_window_parent_free: the node's own surface is
\* deleted before its children.
tui_window_parent_free_preorder(st, slot, errs) ==
  LET n == ReadSlot(st, slot)
      s1 == tui_ncurses_window_free(st, n, errs)
      s2 == tui_windows_free(s1, WindowArr(n), errs)
  IN  FreeWindowStruct(s2, slot)

\* tui_window_parent_free: children first, then the node's own surface,
\* then the struct.
tui_window_parent_free(st, slot, errs) ==
  LET n == ReadSlot(st, slot)
      s1 == tui_windows_free(st, WindowArr(n), errs)
      s2 == tui_ncurses_window_free(s1, n, errs)
  IN  FreeWindowStruct(s2, slot)

\* tui_window_text_free: surface, then the text buffer, then the struct.
tui_window_text_free(st, slot, errs) ==
  LET n == ReadSlot(st, slot)
      s1 == tui_ncurses_window_free(st, n, errs)
      s2 == Free(s1, [kind |-> "text", id |-> n])
  IN  FreeWindowStruct(s2, slot)

\* tui_window_input_free: surface, then the struct.
tui_window_input_free(st, slot, errs) ==
  LET n == ReadSlot(st, slot)
      s1 == tui_ncurses_window_free(st, n, errs)
  IN  FreeWindowStruct(s1, slot)

\* A wrong variant of tui_window_free: a node whose surface the backend
\* fails to delete is given up.
tui_window_free_giving_up(st, slot, errs) ==
  IF slot = NullSlot \/ ReadSlot(st, slot) = NULL \/ ReadSlot(st, slot) \in errs
  THEN st
  ELSE LET type == st.windows[ReadSlot(st, slot)].type
       IN  CASE type = "TUI_WINDOW_PARENT" -> tui_window_parent_free(st, slot, errs)
             [] type = "TUI_WINDOW_TEXT" -> tui_window_text_free(st, slot, errs)
             [] type = "TUI_WINDOW_INPUT" -> tui_window_input_free(st, slot, errs)

\* tui_window_free: no-op on a null slot and on a slot that holds NULL, else
\* dispatch on type.
tui_window_free(st, slot, errs) ==
  IF slot = NullSlot \/ ReadSlot(st, slot) = NULL
  THEN st
  ELSE LET type == st.windows[ReadSlot(st, slot)].type
       IN  CASE type = "TUI_WINDOW_PARENT" -> tui_window_parent_free(st, slot, errs)
             [] type = "TUI_WINDOW_TEXT" -> tui_window_text_free(st, slot, errs)
             [] type = "TUI_WINDOW_INPUT" -> tui_window_input_free(st, slot, errs)

\* The for loop of tui_windows_free from position index on (1-based).
RECURSIVE WindowsFreeLoop(_, _, _, _)
WindowsFreeLoop(st, arr, index, errs) ==
  IF index > Len(ReadArr(st, arr))
  THEN st
  ELSE WindowsFreeLoop(tui_window_free(st, Slot(arr, index), errs),
                       arr, index + 1, errs)

\* tui_windows_free: every element in index order, then the array itself;
\* the array pointer is set to NULL and the count to 0 (the empty sequence).
tui_windows_free(st, arr, errs) ==
  LET s1 == WindowsFreeLoop(st, arr, 1, errs)
      s2 == IF Len(ReadArr(s1, arr)) > 0
            THEN Free(s1, [kind |-> arr.kind \o "_windows", id |-> arr.id])
            ELSE s1
  IN  WriteArr(s2, arr, <<>>)

\* tui_menu_free(&tui->menus[index]), or tui_menu_free(NULL) for index =
\* NULL: no-op on a null reference and on a slot that holds NULL, else the
\* menu's windows, then the struct, then the slot is set to NULL.
tui_menu_free(st, index, errs) ==
  IF index = NULL \/ st.tui.menus[index] = NULL
  THEN st
  ELSE LET m == st.tui.menus[index]
           s1 == tui_windows_free(st, MenuArr(m), errs)
           s2 == Free(s1, [kind |-> "menu", id |-> m])
       IN  [s2 EXCEPT !.menus[m].live = FALSE, !.tui.menus[index] = NULL]

\* The for loop of tui_delete over the menus from position index on.
RECURSIVE MenusFreeLoop(_, _, _)
MenusFreeLoop(st, index, errs) ==
  IF index > Len(st.tui.menus)
  THEN st
  ELSE MenusFreeLoop(tui_menu_free(st, index, errs), index + 1, errs)

\* A wrong variant of tui_delete_body: the menus are forgotten.
tui_delete_body_without_menus(st, errs) ==
  LET s3 == tui_windows_free(st, TuiArr, errs)
      s4 == IF Len(s3.tui.tab_windows) > 0
            THEN Free(s3, [kind |-> "tab_windows", id |-> 0]) ELSE s3
      s5 == Free(s4, [kind |-> "tui", id |-> 0])
  IN  [s5 EXCEPT !.tui.live = FALSE, !.ptr = NULL]

\* The body of tui_delete below its null check: the menus, the menus array,
\* the top-level windows, the tab_windows array (the array only, never its
\* elements), the struct, and the caller's pointer is set to NULL.
tui_delete_body(st, errs) ==
  LET s1 == MenusFreeLoop(st, 1, errs)
      s2 == IF Len(s1.tui.menus) > 0
            THEN Free(s1, [kind |-> "menus", id |-> 0]) ELSE s1
      s3 == tui_windows_free(s2, TuiArr, errs)
      s4 == IF Len(s3.tui.tab_windows) > 0
            THEN Free(s3, [kind |-> "tab_windows", id |-> 0]) ELSE s3
      s5 == Free(s4, [kind |-> "tui", id |-> 0])
  IN  [s5 EXCEPT !.tui.live = FALSE, !.ptr = NULL]


\* A wrong variant of tui_delete: the caller's pointer is not checked.
tui_delete_unchecked(st, ref, errs) ==
  IF ref = NULL THEN st ELSE tui_delete_body(st, errs)

\* tui_delete(ref): ref is NULL or the address of the caller's pointer (1);
\* no-op on a null reference and when the caller's pointer is NULL.
tui_delete(st, ref, errs) ==
  IF ref = NULL \/ st.ptr = NULL THEN st ELSE tui_delete_body(st, errs)

\* ---------------------------------------------------- the tree as built
\* The library has no constructor for windows and menus yet: the caller
\* fills the structs. Every node has exactly one owner (the tui, a menu or
\* a parent window with a smaller id); arrays list their nodes by id.
Owners == {TuiArr} \cup {MenuArr(m) : m \in MenuIds} \cup {WindowArr(p) : p \in Nodes}

RECURSIVE SortedSeq(_)
SortedSeq(S) ==
  IF S = {} THEN <<>>
  ELSE LET x == CHOOSE y \in S : \A z \in S : y <= z
       IN  <<x>> \o SortedSeq(S \ {x})

Owned(parent, arr) == SortedSeq({n \in Nodes : parent[n] = arr})

WellBuilt(parent, type) ==
  \A n \in Nodes :
    parent[n].kind = "window" =>
      /\ parent[n].id < n
      /\ type[parent[n].id] = "TUI_WINDOW_PARENT"

\* The menu that owns node n through its ancestors, or NULL.
RECURSIVE MenuOf(_, _)
MenuOf(parent, n) ==
  CASE parent[n].kind = "tui" -> NULL
    [] parent[n].kind = "menu" -> parent[n].id
    [] parent[n].kind = "window" -> MenuOf(parent, parent[n].id)

\* A node with children is a parent window; the others take the three
\* types in turn, starting from a chosen one.
LeafTypes == <<"TUI_WINDOW_TEXT", "TUI_WINDOW_INPUT", "TUI_WINDOW_PARENT">>

TypesOf(parent, first) ==
  [n \in Nodes |->
     IF \E c \in Nodes : parent[c] = WindowArr(n)
     THEN "TUI_WINDOW_PARENT"
     ELSE LeafTypes[((n + first) % 3) + 1]]

\* At most one node is in trouble: newwin failed for it (its handle is
\* NULL), or the backend reports ERR when its surface is deleted.
Troubles ==
  {[null |-> {}, err |-> {}]}
    \cup {[null |-> {n}, err |-> {}] : n \in Nodes}
    \cup {[null |-> {}, err |-> {n}] : n \in Nodes}

\* The tab view lists the windows that are not containers, or nothing.
TabView(type) == SortedSeq({n \in Nodes : type[n] # "TUI_WINDOW_PARENT"})

InitTree ==
  \E parent \in [Nodes -> Owners], first \in 0..2, trouble \in Troubles,
     tabbed \in BOOLEAN :
    LET type == TypesOf(parent, first)
        tabs == IF tabbed THEN TabView(type) ELSE <<>>
        focus == IF tabs = <<>> THEN NULL ELSE Head(tabs)
    IN
    /\ WellBuilt(parent, type)
    /\ built = [parent |-> parent, type |-> type,
                surface |-> Nodes \ trouble.null, delwin_err |-> trouble.err,
                tab_windows |-> tabs]
    /\ windows = [n \in Nodes |->
                    [type |-> type[n],
                     window |-> IF n \in trouble.null THEN NULL ELSE n,
                     children |-> Owned(parent, WindowArr(n)),
                     live |-> TRUE]]
    /\ menus = [m \in MenuIds |-> [windows |-> Owned(parent, MenuArr(m)), live |-> TRUE]]
    /\ tui = [TuiCreated EXCEPT
                !.menus = SortedSeq(MenuIds),
                !.windows = Owned(parent, TuiArr),
                !.tab_windows = tabs,
                !.window = focus,
                !.menu = IF focus = NULL THEN NULL ELSE MenuOf(parent, focus)]
    /\ tui_ptr = 1
    /\ delwin_calls = <<>>
    /\ free_calls = <<>>
    /\ last_call = "none"
    /\ term = [start_color |-> "OK", has_colors |-> TRUE, reject |-> {}]
    /\ backend = BackendOff
    /\ init = InitIdle
    /\ init_pair_calls = <<>>
    /\ color_op = NoColorOp
    /\ regions = <<>>
    /\ handlers = NoHandlers
    /\ handler_calls = <<>>
    /\ event = NoEvent
    /\ last_ref = "none"
    /\ input = NoInput
    /\ layout = NoLayout

\* ------------------------------------------------------------- actions
SetMem(st) ==
  /\ windows' = st.windows
  /\ menus' = st.menus
  /\ tui' = st.tui
  /\ tui_ptr' = st.ptr
  /\ delwin_calls' = st.delwin_calls
  /\ free_calls' = st.free_calls

\* The arrays a caller can reach through live structs.
LiveArrs ==
  IF tui_ptr = NULL THEN {}
  ELSE {TuiArr}
       \cup {MenuArr(m) : m \in {x \in MenuIds : menus[x].live}}
       \cup {WindowArr(p) : p \in {x \in Nodes : windows[x].live}}

\* A run follows at most one partial teardown before tui_delete: a menu, a
\* window or an array is freed while nothing was released yet.
Untouched == free_calls = <<>> /\ delwin_calls = <<>>

\* The calls that find nothing to release (a null reference, or a
\* reference to a pointer the same call has just set to NULL) are followed
\* on the trees built without trouble; the call on a handle that newwin
\* left NULL is followed on the others.
Quiet == built.surface = Nodes /\ built.delwin_err = {}

Fresh == Untouched /\ Quiet

Again(name) == last_call = name /\ Quiet

\* tui_delete(&tui_ptr) and tui_delete(NULL)
TuiDelete ==
  \E ref \in {NULL, 1} :
    /\ ref = NULL => Fresh
    /\ (ref # NULL /\ tui_ptr = NULL) => Again("tui_delete")
    /\ SetMem(tui_delete(Mem, ref, built.delwin_err))
    /\ last_call' = "tui_delete"
    /\ last_ref' = IF ref = NULL THEN "null"
                   ELSE IF tui_ptr = NULL THEN "to_null" ELSE "object"
    /\ UNCHANGED <<built, colorVars, eventVars, widgetVars>>

\* tui_menu_free(&tui->menus[index]) and tui_menu_free(NULL)
TuiMenuFree ==
  \E index \in 0..Len(tui.menus) :
    /\ index # NULL => tui_ptr # NULL
    /\ IF index = NULL THEN Fresh
       ELSE IF tui.menus[index] = NULL THEN Again("tui_menu_free") ELSE Untouched
    /\ SetMem(tui_menu_free(Mem, index, built.delwin_err))
    /\ last_call' = "tui_menu_free"
    /\ last_ref' = IF index = NULL THEN "null"
                   ELSE IF tui.menus[index] = NULL THEN "to_null" ELSE "object"
    /\ UNCHANGED <<built, colorVars, eventVars, widgetVars>>

\* The slots of the arrays a caller can reach.
LiveSlots ==
  {slot \in [arr : LiveArrs, index : 1..MaxNodes] :
     slot.index <= Len(ReadArr(Mem, slot.arr))}

\* tui_window_free(&array[index]) on an element of an array of a live
\* struct, and tui_window_free(NULL)
TuiWindowFree ==
  \E slot \in LiveSlots \cup {NullSlot} :
    /\ IF slot = NullSlot THEN Fresh
       ELSE IF ReadSlot(Mem, slot) = NULL THEN Again("tui_window_free") ELSE Untouched
    /\ SetMem(tui_window_free(Mem, slot, built.delwin_err))
    /\ last_call' = "tui_window_free"
    /\ last_ref' = IF slot = NullSlot THEN "null"
                   ELSE IF ReadSlot(Mem, slot) = NULL THEN "to_null" ELSE "object"
    /\ UNCHANGED <<built, colorVars, eventVars, widgetVars>>

\* tui_windows_free(&array, &count) on the array of a live tui, menu or
\* parent window
TuiWindowsFree ==
  \E arr \in LiveArrs :
    /\ arr.kind = "window" => windows[arr.id].type = "TUI_WINDOW_PARENT"
    /\ IF ReadArr(Mem, arr) = <<>> THEN Again("tui_windows_free") ELSE Untouched
    /\ SetMem(tui_windows_free(Mem, arr, built.delwin_err))
    /\ last_call' = "tui_windows_free"
    /\ last_ref' = IF ReadArr(Mem, arr) = <<>> THEN "to_null" ELSE "object"
    /\ UNCHANGED <<built, colorVars, eventVars, widgetVars>>

\* tui_ncurses_window_free(&window->window) by the caller on a handle that
\* is NULL (newwin failed), and tui_ncurses_window_free(NULL); the calls on
\* live handles are those of the destructors.
TuiNcursesWindowFree ==
  \E n \in {NULL} \cup {x \in Nodes : windows[x].live /\ windows[x].window = NULL} :
    /\ IF n = NULL THEN Fresh ELSE Untouched
    /\ SetMem(tui_ncurses_window_free(Mem, n, built.delwin_err))
    /\ last_call' = "tui_ncurses_window_free"
    /\ last_ref' = IF n = NULL THEN "null" ELSE "to_null"
    /\ UNCHANGED <<built, colorVars, eventVars, widgetVars>>

NextTree ==
  TuiDelete \/ TuiMenuFree \/ TuiWindowFree \/ TuiWindowsFree \/ TuiNcursesWindowFree

SpecTree == InitTree /\ [][NextTree]_vars


\* ------------------------------------------------- teardown: the claims
\* The window that owns node n, or NULL for a top-level or menu window.
ParentNode(n) == IF built.parent[n].kind = "window" THEN built.parent[n].id ELSE NULL

\* d is n or a descendant of n in the tree as built.
RECURSIVE IsUnder(_, _)
IsUnder(d, n) ==
  \/ d = n
  \/ ParentNode(d) # NULL /\ IsUnder(ParentNode(d), n)

Subtree(n) == {d \in Nodes : IsUnder(d, n)}

\* The positions of the delwin calls on the surface of node n.
DelwinAt(n) == {i \in 1..Len(delwin_calls) : delwin_calls[i].surface = n}

\* The positions of the free calls on `what`.
FreeAt(what) == {i \in 1..Len(free_calls) : free_calls[i] = what}

Freed(n) == ~windows[n].live

\* C1: once a parent window has been destroyed, the surface of every node
\* of its subtree has been deleted exactly once (a node whose newwin failed
\* has none to delete), and every child's surface before its parent's.
C1_PostOrderOnce ==
  \A c \in Nodes :
    (built.type[c] = "TUI_WINDOW_PARENT" /\ Freed(c)) =>
      \A d \in Subtree(c) :
        /\ Cardinality(DelwinAt(d)) = IF d \in built.surface THEN 1 ELSE 0
        /\ (d # c /\ d \in built.surface /\ ParentNode(d) \in built.surface) =>
             \A i \in DelwinAt(d) : \A j \in DelwinAt(ParentNode(d)) : i < j

\* A parent window with a grandchild was destroyed by tui_window_free and
\* three surfaces were deleted.
C1_Witness ==
  /\ last_call = "tui_window_free"
  /\ Len(delwin_calls) = 3
  /\ \E c, d, e \in Nodes :
       /\ Freed(c) /\ ParentNode(d) = c /\ ParentNode(e) = d
       /\ built.parent[c].kind = "menu"

\* C2: after tui_delete returned, the caller's pointer is NULL, the tui,
\* every menu and every window struct has been freed exactly once, and
\* every surface has been deleted exactly once, whether or not the window
\* is listed in tab_windows or is the active window.
C2_DeleteReleasesAll ==
  (last_call = "tui_delete" /\ last_ref # "null") =>
    /\ tui_ptr = NULL
    /\ ~tui.live
    /\ Cardinality(FreeAt([kind |-> "tui", id |-> 0])) = 1
    /\ \A m \in MenuIds :
         /\ ~menus[m].live
         /\ Cardinality(FreeAt([kind |-> "menu", id |-> m])) = 1
    /\ \A n \in Nodes :
         /\ Freed(n)
         /\ Cardinality(FreeAt([kind |-> "window", id |-> n])) = 1
         /\ Cardinality(DelwinAt(n)) = IF n \in built.surface THEN 1 ELSE 0

\* tui_delete returned for a tui whose active window is listed in the tab
\* view and sits in a menu, with windows at top level too.
C2_Witness ==
  /\ last_call = "tui_delete"
  /\ last_ref = "object"
  /\ built.tab_windows # <<>>
  /\ MenuOf(built.parent, Head(built.tab_windows)) # NULL
  /\ \E n \in Nodes : built.parent[n].kind = "tui"
  /\ \E n \in Nodes : built.parent[n].kind = "window"

\* C8: whatever the backend answers when a surface is deleted, and also
\* when a handle is NULL already, a destroyed node leaves no node of its
\* subtree behind, a destroyed menu none of its windows, and every surface
\* of a destroyed node was handed to delwin.
C8_TeardownCompletes ==
  /\ \A n \in Nodes : Freed(n) =>
       /\ \A d \in Subtree(n) : Freed(d)
       /\ n \in built.surface => DelwinAt(n) # {}
  /\ \A m \in MenuIds : ~menus[m].live =>
       \A n \in Nodes : MenuOf(built.parent, n) = m => Freed(n)
  /\ ~tui.live => \A n \in Nodes : Freed(n)

\* The backend reported ERR for a surface, and the teardown went on to
\* delete another surface and to free the parent of the failing node.
C8_Witness ==
  \E i \in 1..Len(delwin_calls) :
    /\ delwin_calls[i].result = "ERR"
    /\ i < Len(delwin_calls)
    /\ ParentNode(delwin_calls[i].surface) # NULL
    /\ Freed(ParentNode(delwin_calls[i].surface))


\* ------------------------------------------------------------ tui_event
\* tui_event(tui, key): the body is empty. st holds the tui struct and the
\* handler invocations; both are returned as they are.
tui_event(st, key) == st

Keys == {KEY_CTRLC, KEY_CTRLZ, KEY_ESC, KEY_ENTR, KEY_TAB}

TuiEvent ==
  \E key \in Keys :
    LET st == tui_event([tui |-> tui, handler_calls |-> handler_calls], key) IN
    /\ tui_ptr # NULL
    /\ tui' = st.tui
    /\ handler_calls' = st.handler_calls
    /\ event' = [key |-> key, window |-> tui.window, calls |-> Len(handler_calls)]
    /\ last_call' = "tui_event"
    /\ UNCHANGED <<windows, menus, tui_ptr, delwin_calls, free_calls, built, last_ref,
                   colorVars, handlers, widgetVars>>

\* The sequences without repetition over S of length n at most.
RECURSIVE Arrangements(_, _)
Arrangements(S, n) ==
  IF n = 0 THEN {<<>>}
  ELSE {<<>>} \cup {<<x>> \o a : x \in S, a \in Arrangements(S, n - 1)}

NoRepeat(seq) == \A i, j \in 1..Len(seq) : seq[i] = seq[j] => i = j

TabViews == {a \in Arrangements(Nodes, MaxNodes) : NoRepeat(a)}

\* A running session: text windows owned by the tui or by a menu, any tab
\* view over them, the active window one of its entries or NULL, the
\* active menu any menu or NULL, the handlers all set or all NULL.
InitEvent ==
  \E parent \in [Nodes -> {TuiArr} \cup {MenuArr(m) : m \in MenuIds}],
     tabs \in TabViews, m \in MenuIds \cup {NULL}, h \in BOOLEAN :
    \E focus \in {tabs[i] : i \in 1..Len(tabs)} \cup {NULL} :
      /\ built = [parent |-> parent, type |-> [n \in Nodes |-> "TUI_WINDOW_TEXT"],
                  surface |-> Nodes, delwin_err |-> {}, tab_windows |-> tabs]
      /\ windows = [n \in Nodes |->
                      [type |-> "TUI_WINDOW_TEXT", window |-> n, children |-> <<>>,
                       live |-> TRUE]]
      /\ menus = [x \in MenuIds |-> [windows |-> Owned(parent, MenuArr(x)), live |-> TRUE]]
      /\ tui = [TuiCreated EXCEPT
                  !.menus = SortedSeq(MenuIds),
                  !.windows = Owned(parent, TuiArr),
                  !.tab_windows = tabs,
                  !.window = focus,
                  !.menu = m,
                  !.is_running = TRUE]
      /\ tui_ptr = 1
      /\ delwin_calls = <<>>
      /\ free_calls = <<>>
      /\ last_call = "none"
      /\ term = [start_color |-> "OK", has_colors |-> TRUE, reject |-> {}]
      /\ backend = InitializedBackend({})
      /\ init = [pc |-> "returned", fg_index |-> NumColors, bg_index |-> 0, result |-> 0]
      /\ init_pair_calls = <<>>
      /\ color_op = NoColorOp
      /\ regions = <<>>
      /\ handlers = [tui |-> h, menus |-> [x \in MenuIds |-> h],
                     windows |-> [n \in Nodes |-> h]]
      /\ handler_calls = <<>>
      /\ event = NoEvent
      /\ last_ref = "none"
      /\ input = NoInput
      /\ layout = NoLayout

NextEvent == TuiEvent

SpecEvent == InitEvent /\ [][NextEvent]_vars

\* ----------------------------------------------------- the event claims
ReservedKeys == {KEY_CTRLC, KEY_CTRLZ, KEY_ESC}

\* The handler invocations made by the last tui_event call.
CallsOfEvent == SubSeq(handler_calls, event.calls + 1, Len(handler_calls))

\* The position of window w in the tab view, 0 when it is not listed.
TabPos(w) ==
  IF \E i \in 1..Len(tui.tab_windows) : tui.tab_windows[i] = w
  THEN CHOOSE i \in 1..Len(tui.tab_windows) : tui.tab_windows[i] = w
  ELSE 0

\* C9: for a key that is neither reserved nor TAB, one tui_event call
\* invokes the handler of the tui, then the handler of the active menu,
\* then the handler of the active window, each once.
C9_HandlerChain ==
  (/\ last_call = "tui_event"
   /\ event.key \notin ReservedKeys \cup {KEY_TAB}
   /\ tui.menu # NULL /\ tui.window # NULL
   /\ handlers.tui /\ handlers.menus[tui.menu] /\ handlers.windows[tui.window])
  => CallsOfEvent = <<[level |-> "tui", id |-> 0, key |-> event.key],
                      [level |-> "menu", id |-> tui.menu, key |-> event.key],
                      [level |-> "window", id |-> tui.window, key |-> event.key]>>

\* C10: a TAB key moves tui->window to the next entry of tab_windows,
\* wrapping around at the end, and invokes no handler.
C10_TabAdvances ==
  (/\ last_call = "tui_event"
   /\ event.key = KEY_TAB
   /\ TabPos(event.window) # 0)
  => /\ tui.window = tui.tab_windows[(TabPos(event.window) % Len(tui.tab_windows)) + 1]
     /\ CallsOfEvent = <<>>

\* C11: a tui_event call with a reserved key (interrupt, suspend, escape),
\* on a tui whose handler is set and consumes the reserved keys, leaves
\* is_running false and invokes no handler of a menu or a window; and once
\* is_running is false, no step makes it true again.
C11_ReservedKeyStops ==
  /\ [](( /\ last_call = "tui_event"
          /\ event.key \in ReservedKeys
          /\ handlers.tui )
        => /\ ~tui.is_running
           /\ \A i \in 1..Len(CallsOfEvent) : CallsOfEvent[i].level = "tui")
  /\ [][~tui.is_running => ~tui'.is_running]_vars

\* ------------------------------------------- the focus references
\* C12: while the tui is live, tui->menu, tui->window and every entry of
\* tab_windows refer to structs that have not been freed.
C12_NoDanglingFocus ==
  (tui_ptr # NULL /\ tui.live) =>
    /\ tui.menu # NULL => menus[tui.menu].live
    /\ tui.window # NULL => windows[tui.window].live
    /\ \A i \in 1..Len(tui.tab_windows) : windows[tui.tab_windows[i]].live

\* ------------------------------------------------------ the input window
\* tui.h declares tui_window_input_t and no function that works on it; the
\* operations are those of the specification of the input window: insert,
\* delete_backward, move_cursor and the scroll recomputation.
MaxLen == 3
MaxInitSize == 2
MaxWidth == 2

Chars == {"a", "b"}

\* The cursor is kept in the visible window [scroll, scroll + w).
ScrollRecompute(in) ==
  IF in.cursor < in.scroll
  THEN [in EXCEPT !.scroll = in.cursor]
  ELSE IF in.cursor >= in.scroll + in.w
       THEN [in EXCEPT !.scroll = in.cursor - in.w + 1]
       ELSE in

\* The buffer doubles when it is full.
Grow(in) ==
  IF in.buffer_len = in.buffer_size
  THEN [in EXCEPT !.buffer_size = 2 * in.buffer_size]
  ELSE in

\* insert(char): grow when full, insert at cursor, shift the trailing bytes
\* right, cursor += 1, length += 1.
insert(in, char) ==
  LET g == Grow(in) IN
  ScrollRecompute(
    [g EXCEPT !.buffer = SubSeq(in.buffer, 1, in.cursor) \o <<char>>
                           \o SubSeq(in.buffer, in.cursor + 1, Len(in.buffer)),
              !.cursor = in.cursor + 1,
              !.buffer_len = in.buffer_len + 1])

\* A wrong variant of delete_backward: the length is not decremented.
delete_backward_keeps_len(in) ==
  IF in.cursor = 0
  THEN in
  ELSE ScrollRecompute(
         [in EXCEPT !.buffer = SubSeq(in.buffer, 1, in.cursor - 1)
                                 \o SubSeq(in.buffer, in.cursor + 1, Len(in.buffer)),
                    !.cursor = in.cursor - 1])

\* delete_backward(): no-op at cursor 0, else the bytes shift left over
\* position cursor - 1, cursor -= 1, length -= 1.
delete_backward(in) ==
  IF in.cursor = 0
  THEN in
  ELSE ScrollRecompute(
         [in EXCEPT !.buffer = SubSeq(in.buffer, 1, in.cursor - 1)
                                 \o SubSeq(in.buffer, in.cursor + 1, Len(in.buffer)),
                    !.cursor = in.cursor - 1,
                    !.buffer_len = in.buffer_len - 1])

Clamp(x, lo, hi) == IF x < lo THEN lo ELSE IF x > hi THEN hi ELSE x

\* A wrong variant of move_cursor: the upper end is not clamped.
move_cursor_unclamped(in, delta) ==
  ScrollRecompute([in EXCEPT !.cursor = IF in.cursor + delta < 0 THEN 0
                                        ELSE in.cursor + delta])

\* move_cursor(delta): the cursor is clamped to [0, length].
move_cursor(in, delta) ==
  ScrollRecompute([in EXCEPT !.cursor = Clamp(in.cursor + delta, 0, in.buffer_len)])

\* insert on the input window; when the buffer has to grow and the
\* allocation fails, nothing changes and the insertion does not count.
InputInsert ==
  \E char \in Chars, alloc_ok \in BOOLEAN :
    /\ input.buffer_len < MaxLen
    /\ alloc_ok \/ input.buffer_len = input.buffer_size
    /\ input' = IF alloc_ok
                THEN [insert(input, char) EXCEPT
                        !.op = "insert",
                        !.paired = input.paired /\ input.deletes = 0,
                        !.inserts = IF input.paired /\ input.deletes = 0
                                    THEN input.inserts + 1 ELSE 0,
                        !.deletes = 0]
                ELSE [input EXCEPT !.op = "insert"]
    /\ UNCHANGED <<treeVars, last_call, colorVars, eventVars, layout>>

\* delete_backward on the input window
InputDeleteBackward ==
  /\ input' = [delete_backward(input) EXCEPT
                 !.op = "delete_backward",
                 !.paired = input.paired /\ input.deletes < input.inserts,
                 !.inserts = IF input.paired /\ input.deletes < input.inserts
                             THEN input.inserts ELSE 0,
                 !.deletes = IF input.paired /\ input.deletes < input.inserts
                             THEN input.deletes + 1 ELSE 0]
  /\ UNCHANGED <<treeVars, last_call, colorVars, eventVars, layout>>

Deltas == {d \in -MaxLen..MaxLen : d # 0}

\* move_cursor(delta) on the input window
InputMoveCursor ==
  \E delta \in Deltas :
    /\ input' = [move_cursor(input, delta) EXCEPT
                   !.op = "move_cursor",
                   !.paired = FALSE, !.inserts = 0, !.deletes = 0]
    /\ UNCHANGED <<treeVars, last_call, colorVars, eventVars, layout>>

\* Nothing of the library is running but the widget under study.
IdleLibrary ==
  /\ NoTree
  /\ last_call = "none"
  /\ term = [start_color |-> "OK", has_colors |-> TRUE, reject |-> {}]
  /\ backend = BackendOff
  /\ init = InitIdle
  /\ init_pair_calls = <<>>
  /\ color_op = NoColorOp
  /\ regions = <<>>
  /\ handlers = NoHandlers
  /\ handler_calls = <<>>
  /\ event = NoEvent

\* An empty input window: a buffer of some size, a visible width of one cell
\* at least.
InitInput ==
  /\ IdleLibrary
  /\ layout = NoLayout
  /\ \E size \in 1..MaxInitSize, w \in 1..MaxWidth :
       input = [NoInput EXCEPT !.buffer_size = size, !.w = w, !.paired = TRUE]

NextInput == InputInsert \/ InputDeleteBackward \/ InputMoveCursor

SpecInput == InitInput /\ [][NextInput]_vars

C14_InputRoundTrip ==
  (input.paired /\ input.inserts > 0 /\ input.deletes = input.inserts) =>
    /\ input.buffer_len = 0
    /\ input.cursor = 0
    /\ input.buffer = <<>>

\* The round trip was made with more insertions than the first capacity
\* holds.
C14_Witness ==
  /\ input.paired
  /\ input.inserts > MaxInitSize
  /\ input.deletes = input.inserts
  /\ input.op = "delete_backward"

\* ------------------------------------------------------------ the layout
\* tui.h declares tui_window_parent_t, tui_pos_t and tui_align_t and no
\* function that places children; the placement along the main axis is that
\* of the specification of the layout engine.
MaxExtent == 8
MaxChildren == 3
MaxSize == 3

\* tui_pos_t and tui_align_t
Positions == {"TUI_POS_START", "TUI_POS_CENTER", "TUI_POS_END"}
Alignments == {"TUI_ALIGN_START", "TUI_ALIGN_CENTER", "TUI_ALIGN_END",
               "TUI_ALIGN_BETWEEN", "TUI_ALIGN_AROUND", "TUI_ALIGN_EVENLY"}

RECURSIVE Sum(_)
Sum(seq) == IF seq = <<>> THEN 0 ELSE Head(seq) + Sum(Tail(seq))

\* A wrong variant of Distribute: the remainder is dropped.
DistributeFloor(total, n) == [i \in 1..n |-> total \div n]

\* total cells over n places: floor division, the remainder goes to the
\* first places, one cell each, so that the total is kept.
Distribute(total, n) ==
  [i \in 1..n |-> (total \div n) + (IF i <= total % n THEN 1 ELSE 0)]

\* Step 1: the auto-sized children share what the fixed-size children
\* leave, nothing when the fixed sizes overflow the container.
Extents(extent, sizes) ==
  LET fixed == Sum(sizes)
      autos == {i \in 1..Len(sizes) : sizes[i] = 0}
      remaining == IF extent > fixed THEN extent - fixed ELSE 0
      shares == Distribute(remaining, Cardinality(autos))
      rank(i) == Cardinality({j \in autos : j <= i})
  IN  [i \in 1..Len(sizes) |-> IF i \in autos THEN shares[rank(i)] ELSE sizes[i]]

\* Steps 2 and 3: the gaps, from the leading edge to the trailing edge, for
\* n >= 1 children that leave `free` cells. START, CENTER and END pack the
\* children and place the block by pos; so does BETWEEN for a single child,
\* which has no gap between children.
Gaps(free, n, pos, align) ==
  LET lead == CASE pos = "TUI_POS_START" -> 0
                [] pos = "TUI_POS_CENTER" -> free \div 2
                [] pos = "TUI_POS_END" -> free
      packed == <<lead>> \o [i \in 1..(n - 1) |-> 0] \o <<free - lead>>
  IN  CASE align = "TUI_ALIGN_BETWEEN" /\ n >= 2 ->
             <<0>> \o Distribute(free, n - 1) \o <<0>>
        [] align = "TUI_ALIGN_AROUND" ->
             <<(free \div n) \div 2>> \o [i \in 1..(n - 1) |-> free \div n]
               \o <<(free \div n) \div 2>>
        [] align = "TUI_ALIGN_EVENLY" -> Distribute(free, n + 1)
        [] OTHER -> packed

\* The layout of one parent window along its main axis; no-op without
\* children.
Layout(l) ==
  IF l.sizes = <<>>
  THEN [l EXCEPT !.done = TRUE]
  ELSE LET extents == Extents(l.extent, l.sizes)
           free == IF l.extent > Sum(extents) THEN l.extent - Sum(extents) ELSE 0
       IN  [l EXCEPT !.extents = extents,
                     !.gaps = Gaps(free, Len(l.sizes), l.pos, l.align),
                     !.done = TRUE]

\* The parent window is laid out.
TuiLayout ==
  /\ ~layout.done
  /\ layout' = Layout(layout)
  /\ UNCHANGED <<treeVars, last_call, colorVars, eventVars, input>>

RECURSIVE SeqsUpTo(_, _)
SeqsUpTo(S, n) ==
  IF n = 0 THEN {<<>>}
  ELSE {<<>>} \cup {<<x>> \o a : x \in S, a \in SeqsUpTo(S, n - 1)}

\* A parent window of some extent with up to MaxChildren children, fixed
\* or auto-sized.
InitLayout ==
  /\ IdleLibrary
  /\ input = NoInput
  /\ \E extent \in 0..MaxExtent, sizes \in SeqsUpTo(0..MaxSize, MaxChildren),
        pos \in Positions, align \in Alignments :
       layout = [NoLayout EXCEPT !.extent = extent, !.sizes = sizes,
                                 !.pos = pos, !.align = align]

NextLayout == TuiLayout

SpecLayout == InitLayout /\ [][NextLayout]_vars

\* ----------------------------------------------------- the layout: the claims
\* The parent was laid out with align BETWEEN and its children, two at
\* least, are of fixed size and fit.
FixedBetween ==
  /\ layout.done
  /\ layout.align = "TUI_ALIGN_BETWEEN"
  /\ Len(layout.sizes) >= 2
  /\ \A i \in 1..Len(layout.sizes) : layout.sizes[i] > 0
  /\ Sum(layout.sizes) <= layout.extent

\* The gaps strictly between consecutive children.
Between(gaps) == SubSeq(gaps, 2, Len(gaps) - 1)

\* C15 as stated: with align BETWEEN and fixed-size children that fit, the
\* gaps between consecutive children are equal, the gaps at both edges are
\* 0, and children plus gaps take exactly the extent of the container.
C15_BetweenEqualGaps ==
  FixedBetween =>
    /\ \A i, j \in 1..Len(Between(layout.gaps)) :
         Between(layout.gaps)[i] = Between(layout.gaps)[j]
    /\ layout.gaps[1] = 0
    /\ layout.gaps[Len(layout.gaps)] = 0
    /\ Sum(layout.extents) + Sum(layout.gaps) = layout.extent

\* C15 as amended: with align BETWEEN and fixed-size children that fit,
\* the gaps at both edges are 0, the gaps between consecutive
\* children differ by one cell at most, never growing from one gap to the
\* next (they are equal when the free cells divide evenly), and children
\* plus gaps take exactly the extent of the container; a container of 100
\* with three children of 10 has two gaps of 35.
C15_BetweenGapsAmended ==
  /\ FixedBetween =>
       LET between == Between(layout.gaps)
           free == layout.extent - Sum(layout.sizes)
       IN  /\ layout.extents = layout.sizes
           /\ layout.gaps[1] = 0
           /\ layout.gaps[Len(layout.gaps)] = 0
           /\ \A i, j \in 1..Len(between) :
                i <= j => between[i] - between[j] \in {0, 1}
           /\ free % Len(between) = 0 =>
                \A i \in 1..Len(between) : between[i] = free \div Len(between)
           /\ Sum(layout.extents) + Sum(layout.gaps) = layout.extent
  /\ Gaps(100 - 30, 3, "TUI_POS_START", "TUI_ALIGN_BETWEEN") = <<0, 35, 35, 0>>

\* Three fixed-size children were laid out with free cells that do not
\* divide evenly over the two gaps.
C15_Witness ==
  /\ FixedBetween
  /\ Len(layout.sizes) = 3
  /\ (layout.extent - Sum(layout.sizes)) % 2 = 1
  /\ layout.gaps[2] = layout.gaps[3] + 1

\* ------------------------------------------------- what the structs own
\* The heap blocks a window struct points to besides its WINDOW* and its
\* children: name and border of the head, string and text of a text window,
\* buffer of an input window. Every window is built with all of its blocks.
OwnedBlocks(n) ==
  {"name", "border"}
    \cup (IF built.type[n] = "TUI_WINDOW_TEXT" THEN {"string", "text"} ELSE {})
    \cup (IF built.type[n] = "TUI_WINDOW_INPUT" THEN {"buffer"} ELSE {})

\* C16: once a window has been destroyed, each block it owns (name, border,
\* string and text of a text window, buffer of an input window) has been
\* freed exactly once, and after tui_delete this holds of every window and
\* of the name of every menu.
C16_TeardownReleasesOwned ==
  /\ \A n \in Nodes : Freed(n) =>
       \A b \in OwnedBlocks(n) : Cardinality(FreeAt([kind |-> b, id |-> n])) = 1
  /\ (last_call = "tui_delete" /\ last_ref # "null") =>
       \A m \in MenuIds : Cardinality(FreeAt([kind |-> "menu_name", id |-> m])) = 1

\* ------------------------------------------- the color calls: pairing
\* C17: the pair index a tui_color_off call hands to attroff is the pair
\* index that the matching tui_color_on call, made with the same arguments,
\* handed to attron.
C17_OffMatchesOn ==
  color_op.op = "off" => color_op.index = color_op.matched

\* ------------------------------------ the color calls in any order
\* tui_color_on(tui, fg, bg) with any colors of tui_color_t; the regions
\* are not followed.
TuiColorOnAny ==
  \E fg \in Colors, bg \in Colors :
    LET color == tui_color_on(backend, tui.color, fg, bg) IN
    /\ tui_ptr # NULL
    /\ tui' = [tui EXCEPT !.color = color]
    /\ color_op' = [op |-> "on", fg |-> fg, bg |-> bg, before |-> tui.color,
                    index |-> color, prior |-> color_op.op # "none", matched |-> 0]
    /\ last_call' = "tui_color_on"
    /\ UNCHANGED <<windows, menus, tui_ptr, delwin_calls, free_calls, built, last_ref,
                   term, backend, init, init_pair_calls, regions, eventVars, widgetVars>>

\* tui_color_off(tui, fg, bg) with any colors of tui_color_t, whatever was
\* turned on before.
TuiColorOffAny ==
  \E fg \in Colors, bg \in Colors :
    /\ tui_ptr # NULL
    /\ color_op' = [op |-> "off", fg |-> fg, bg |-> bg, before |-> tui.color,
                    index |-> tui_color_off(backend, tui.color, fg, bg),
                    prior |-> TRUE, matched |-> 0]
    /\ last_call' = "tui_color_off"
    /\ UNCHANGED <<treeVars, term, backend, init, init_pair_calls, regions, eventVars,
                   widgetVars>>

NextColorAny == TuiCreate \/ TuiColorOnAny \/ TuiColorOffAny

SpecColorAny == InitColor /\ [][NextColorAny]_vars

\* C19: from a created tui (tui->color 0) and after any tui_color_on and
\* tui_color_off calls with colors of tui_color_t, tui->color and every pair
\* index handed to attron or attroff are in 0..80, whether pair_content
\* succeeds on tui->color or not.
C19_IndexInRange ==
  /\ tui.color \in PairIndexes
  /\ color_op.index \in PairIndexes
  /\ color_op.before \in PairIndexes

\* tui->color is the highest pair, the backend cannot report it, and a
\* tui_color_off call with a NONE foreground was made.
C19_Witness ==
  /\ color_op.op = "off"
  /\ color_op.fg = TUI_COLOR_NONE
  /\ tui.color = NumColors * NumColors - 1
  /\ pair_content(backend, tui.color).result = "ERR"

\* ------------------------------------- teardown: null references, repeats
\* The memory the teardown functions write.
memVars == <<windows, menus, tui, tui_ptr, delwin_calls, free_calls>>

\* No block is freed twice and no surface is deleted twice.
ReleasedOnce ==
  /\ \A i, j \in 1..Len(free_calls) : free_calls[i] = free_calls[j] => i = j
  /\ \A i, j \in 1..Len(delwin_calls) :
       delwin_calls[i].surface = delwin_calls[j].surface => i = j

\* A freed struct is referred to by no slot and no pointer of the caller,
\* the handle of a deleted surface is NULL, and an array that
\* tui_windows_free went through is NULL with count 0.
ReferencesCleared ==
  /\ tui_ptr # NULL <=> tui.live
  /\ ~tui.live => tui.windows = <<>>
  /\ \A m \in MenuIds : ~menus[m].live =>
       /\ menus[m].windows = <<>>
       /\ \A i \in 1..Len(tui.menus) : tui.menus[i] # m
  /\ \A n \in Nodes :
       /\ DelwinAt(n) # {} => windows[n].window = NULL
       /\ Freed(n) =>
            /\ windows[n].window = NULL
            /\ windows[n].children = <<>>
            /\ \A arr \in Owners : \A i \in 1..Len(ReadArr(Mem, arr)) :
                 ReadArr(Mem, arr)[i] # n
  /\ \A arr \in Owners :
       FreeAt([kind |-> arr.kind \o "_windows", id |-> arr.id]) # {} =>
         ReadArr(Mem, arr) = <<>>

\* C18: tui_delete, tui_menu_free, tui_window_free and
\* tui_ncurses_window_free change nothing when they are handed a null
\* reference or a reference to NULL; what they release is released once and
\* the reference to it is set to NULL, and tui_windows_free leaves the array
\* NULL with count 0; so a repeated tui_delete or tui_window_free releases
\* nothing again.
C18_NullSafeIdempotent ==
  /\ [](ReleasedOnce /\ ReferencesCleared)
  /\ [][last_ref' \in {"null", "to_null"} => UNCHANGED memVars]_vars

\* tui_delete was called a second time through the caller's pointer, which
\* the first call had set to NULL after it released the tree.
C18_Witness ==
  /\ last_call = "tui_delete"
  /\ last_ref = "to_null"
  /\ tui_ptr = NULL
  /\ Len(free_calls) > MaxNodes

=============================================================================
